---- MODULE Spec2Model ----
(***************************************************************************)
(* Model of the canvas log reader (src/src/main.rs).                       *)
(*                                                                         *)
(* main opens the log, parses it into a Canvas (read_log_to_canvas),       *)
(* folds the canvas into posns_map (artist -> set of points) and then      *)
(* calls six checkers in a fixed order, handing each result to             *)
(* print_err_msg.                                                          *)
(*                                                                         *)
(* Spec    is one run of main over an input file.                          *)
(* SpecFn  applies one checker function, possibly twice, to an arbitrary   *)
(*         occupancy index (HashMap<u32, HashSet<Point>>), including       *)
(*         values that main itself never builds (empty sets).              *)
(*                                                                         *)
(* HashMap / HashSet iteration order is unspecified (RandomState): every   *)
(* place where the code's result depends on it is a nondeterministic       *)
(* choice here (the anchor of normalize_points, the order of into_values). *)
(* Diagnostics printed while iterating a hash container are kept as sets.  *)
(***************************************************************************)
EXTENDS Integers, Sequences, FiniteSets, TLC

\* ------------------------------------------------------------------ bounds
MaxLog == 3
MaxArtist == 2

\* ------------------------------------------------------- program constants
ExpectedArtists == 54
MinPixels == 1
NumFields == 6

\* --------------------------------------------------------------- data types
Point(x, y) == [x |-> x, y |-> y]

Color(r, g, b) == [r |-> r, g |-> g, b |-> b]

CanvasPixel(artist, x, y, red, green, blue) ==
    [artist |-> artist, coord |-> Point(x, y), color |-> Color(red, green, blue)]

\* Ord for Point compares the x component only.
PointLe(p, q) == p.x <= q.x

\* i16 subtraction as the release build computes it (two's complement wrap).
I16Sub(a, b) == (((a - b) + 32768) % 65536) - 32768

\* ------------------------------------------------------------------ tokens
\* A field of a line after split(' ') and trim_end_matches(','): either the
\* text of an integer (num, with its value) or text that is no integer.
Tok(v) == [num |-> TRUE, val |-> v]

BadTok == [num |-> FALSE, val |-> 0]

\* str::parse::<T>: succeeds iff the text is an integer within T's range.
\* (u32's upper limit 2^32-1 is beyond the values the model uses.)
Parses(s, type) ==
    /\ s.num
    /\ CASE type = "u32" -> s.val >= 0
         [] type = "i16" -> s.val >= -32768 /\ s.val <= 32767
         [] type = "u8"  -> s.val >= 0 /\ s.val <= 255

try_parse(s, type, name, line_num) ==
    IF Parses(s, type)
    THEN [ok |-> TRUE, val |-> s.val, err |-> <<>>]
    ELSE [ok |-> FALSE, val |-> 0,
          err |-> <<[kind |-> "parse", name |-> name, line |-> line_num]>>]

FieldTypes == <<"u32", "i16", "i16", "u8", "u8", "u8">>

FieldNames == <<"artist", "x", "y", "red", "green", "blue">>

\* The six try_parse calls of one line, in order; `?` returns the first Err.
RECURSIVE ParseFields(_, _, _)
ParseFields(parts, k, line_num) ==
    IF k > NumFields THEN <<>>
    ELSE LET r == try_parse(parts[k], FieldTypes[k], FieldNames[k], line_num)
         IN IF r.ok THEN ParseFields(parts, k + 1, line_num) ELSE r.err

\* One iteration of the loop of read_log_to_canvas on line number line_num:
\* what it returns early with, <<>> when the line yields a pixel.
LineErr(parts, line_num) ==
    IF Len(parts) # NumFields
    THEN <<[kind |-> "main_error", msg |-> "Line is formatted improperly"]>>
    ELSE LET e == ParseFields(parts, 1, line_num)
         IN IF e # <<>>
            THEN e \o <<[kind |-> "main_error", msg |-> "ParseIntError"]>>
            ELSE <<>>

LinePixel(parts) ==
    CanvasPixel(parts[1].val, parts[2].val, parts[3].val,
                parts[4].val, parts[5].val, parts[6].val)

\* Mutant: a malformed line is skipped (continue) instead of ending the read.
read_log_to_canvas_skip(ls) ==
    LET good == {lnum \in 1..Len(ls) : LineErr(ls[lnum], lnum - 1) = <<>>}
        nth(k) == CHOOSE lnum \in good : Cardinality({j \in good : j <= lnum}) = k
    IN [ok |-> TRUE, pixels |-> [k \in 1..Cardinality(good) |-> LinePixel(ls[nth(k)])],
        err |-> <<>>]

\* lines.iter().enumerate() is 0-based: element lnum of ls is line lnum-1.
\* The loop returns at the first line whose iteration fails; otherwise every
\* line has pushed its pixel, in order.
read_log_to_canvas(ls) ==
    LET failing == {lnum \in 1..Len(ls) : LineErr(ls[lnum], lnum - 1) # <<>>}
    IN IF failing = {}
       THEN [ok |-> TRUE, pixels |-> [lnum \in 1..Len(ls) |-> LinePixel(ls[lnum])],
             err |-> <<>>]
       ELSE LET first == CHOOSE lnum \in failing : \A other \in failing : lnum <= other
            IN [ok |-> FALSE, pixels |-> <<>>, err |-> LineErr(ls[first], first - 1)]

\* ---------------------------------------------------------------- checkers
Ok == [kind |-> "Ok", msg |-> "", diags |-> {}]

NotRun == [kind |-> "NotRun", msg |-> "", diags |-> {}]

Panic(msg) == [kind |-> "Panic", msg |-> msg, diags |-> {}]

check_enough_artists(artists, num_artists) ==
    IF Cardinality(artists) # num_artists
    THEN [kind |-> "Err", msg |-> "incorrect number of artists painted",
          diags |-> {[expected |-> num_artists, found |-> Cardinality(artists)]}]
    ELSE Ok

check_all_artists_draw(pm, num_pixels) ==
    LET starved == {a \in DOMAIN pm : Cardinality(pm[a]) < num_pixels}
        ds == {[artist |-> a, drew |-> Cardinality(pm[a]), need |-> num_pixels] :
                 a \in starved}
    IN IF ds # {}
       THEN [kind |-> "Err", msg |-> "Artists did not draw enough pixels", diags |-> ds]
       ELSE Ok

\* The loop of check_colors_unique from pixel i on; color_set is the
\* HashMap<Color, u32>, ds the diagnostics printed so far (log order).
RECURSIVE ColorsFrom(_, _, _, _)
ColorsFrom(cv, i, color_set, ds) ==
    IF i > Len(cv) THEN ds
    ELSE LET pixel == cv[i]
         IN IF pixel.color \in DOMAIN color_set
            THEN IF color_set[pixel.color] = pixel.artist
                 THEN ColorsFrom(cv, i + 1, color_set, ds)
                 ELSE ColorsFrom(cv, i + 1, color_set,
                          Append(ds, [offender |-> pixel.artist, color |-> pixel.color,
                                      claimant |-> color_set[pixel.color]]))
            ELSE ColorsFrom(cv, i + 1,
                     [c \in DOMAIN color_set \cup {pixel.color} |->
                         IF c = pixel.color THEN pixel.artist ELSE color_set[c]],
                     ds)

\* Mutant: the scan stops at the first violation.
check_colors_unique_first(cv) ==
    LET ds == ColorsFrom(cv, 1, <<>>, <<>>)
    IN IF ds # <<>>
       THEN [kind |-> "Err", msg |-> "each artist must have a unique color",
             diags |-> <<ds[1]>>]
       ELSE [kind |-> "Ok", msg |-> "", diags |-> <<>>]

check_colors_unique(cv) ==
    LET ds == ColorsFrom(cv, 1, <<>>, <<>>)
    IN IF ds # <<>>
       THEN [kind |-> "Err", msg |-> "each artist must have a unique color", diags |-> ds]
       ELSE [kind |-> "Ok", msg |-> "", diags |-> <<>>]

\* Mutant: an artist is also compared with itself.
check_no_overlapping_self(pm) ==
    LET ds == {[artist |-> pr[1], other_artist |-> pr[2], points |-> pm[pr[1]] \cap pm[pr[2]]] :
                 pr \in {q \in (DOMAIN pm) \X (DOMAIN pm) : pm[q[1]] \cap pm[q[2]] # {}}}
    IN IF ds # {}
       THEN [kind |-> "Err", msg |-> "artists paint to the same position", diags |-> ds]
       ELSE Ok

check_no_overlapping(pm) ==
    LET ds == {[artist |-> pr[1], other_artist |-> pr[2], points |-> pm[pr[1]] \cap pm[pr[2]]] :
                 pr \in {q \in (DOMAIN pm) \X (DOMAIN pm) :
                           /\ q[1] # q[2]
                           /\ pm[q[1]] \cap pm[q[2]] # {}}}
    IN IF ds # {}
       THEN [kind |-> "Err", msg |-> "artists paint to the same position", diags |-> ds]
       ELSE Ok

\* unimplemented!() panics after the announcement line.
check_no_islands(pm) == Panic("not implemented")

\* points.iter().max() under Ord-by-x: a maximal-x point; among several the
\* one met last in the set's iteration order, which is unspecified.
Rightmost(points) == {p \in points : \A q \in points : PointLe(q, p)}

\* The possible results of normalize_points.
normalize_points(points) ==
    IF points = {}
    THEN {[ok |-> FALSE, set |-> {}]}
    ELSE {[ok |-> TRUE,
           set |-> {Point(I16Sub(p.x, rightmost.x), I16Sub(p.y, rightmost.y)) :
                      p \in points}] : rightmost \in Rightmost(points)}

\* The orders in which into_values() can yield the entries of the map.
Orders(S) == {o \in [1..Cardinality(S) -> S] : \A i, j \in DOMAIN o : i # j => o[i] # o[j]}

Min2(a, b) == IF a <= b THEN a ELSE b

Max2(a, b) == IF a >= b THEN a ELSE b

\* The possible results of check_no_repeating_patterns.  duplicates holds the
\* pairs of 0-based indexes into `normalized`; pairs names the same pairs by
\* the artists whose sets sit at those indexes.
check_no_repeating_patterns(pm) ==
    IF \E a \in DOMAIN pm : pm[a] = {}
    THEN {Panic("Failed to normalize set")}
    ELSE {LET n == Cardinality(DOMAIN pm)
              normalized == [i \in 1..n |-> norm[order[i]].set]
              hits == {pr \in (1..n) \X (1..n) :
                         pr[1] # pr[2] /\ normalized[pr[1]] = normalized[pr[2]]}
              duplicates == {<<Min2(pr[1], pr[2]) - 1, Max2(pr[1], pr[2]) - 1>> : pr \in hits}
          IN [kind |-> IF duplicates = {} THEN "Ok" ELSE "Err",
              msg |-> IF duplicates = {} THEN "" ELSE "Found duplicate patterns",
              count |-> Cardinality(duplicates),
              diags |-> hits,
              duplicates |-> duplicates,
              pairs |-> {{order[pr[1] + 1], order[pr[2] + 1]} : pr \in duplicates}] :
            order \in Orders(DOMAIN pm),
            norm \in {f \in [DOMAIN pm -> UNION {normalize_points(pm[a]) : a \in DOMAIN pm}] :
                        \A a \in DOMAIN pm : f[a] \in normalize_points(pm[a])}}

\* main calls the checkers in this order (lines 123-144).
Checkers == <<"enough_artists", "all_artists_draw", "colors_unique",
              "no_overlapping", "no_islands", "no_repeating_patterns">>

CheckerNames == {Checkers[i] : i \in 1..Len(Checkers)}

\* The possible results of the call main makes to the named checker.
CheckerOutcomes(name, cv, pm) ==
    CASE name = "enough_artists" -> {check_enough_artists(DOMAIN pm, ExpectedArtists)}
      [] name = "all_artists_draw" -> {check_all_artists_draw(pm, MinPixels)}
      [] name = "colors_unique" -> {check_colors_unique(cv)}
      [] name = "no_overlapping" -> {check_no_overlapping(pm)}
      [] name = "no_islands" -> {check_no_islands(pm)}
      [] name = "no_repeating_patterns" -> check_no_repeating_patterns(pm)

\* print_err_msg: the Err's message goes to stderr, an Ok prints nothing.
print_err_msg(name, res) ==
    IF res.kind = "Err" THEN <<[kind |-> "err_msg", checker |-> name]>> ELSE <<>>

\* ------------------------------------------------------------------ inputs
LogPoints == {Point(0, 0), Point(1, 0)}

LogColors == {Color(1, 2, 3), Color(4, 5, 6)}

GoodLine(a, p, c) == <<Tok(a), Tok(p.x), Tok(p.y), Tok(c.r), Tok(c.g), Tok(c.b)>>

GoodLines == {GoodLine(a, p, c) : a \in 1..MaxArtist, p \in LogPoints, c \in LogColors}

BaseLine == GoodLine(1, Point(0, 0), Color(1, 2, 3))

\* Malformed lines: five fields, seven fields, and for each of the six roles
\* a field that does not parse to its type (not a number, or out of range).
BadLines ==
    { SubSeq(BaseLine, 1, 5),
      BaseLine \o <<BadTok>>,
      [BaseLine EXCEPT ![1] = Tok(-1)],
      [BaseLine EXCEPT ![2] = BadTok, ![6] = BadTok],
      [BaseLine EXCEPT ![3] = Tok(40000)],
      [BaseLine EXCEPT ![4] = Tok(256)],
      [BaseLine EXCEPT ![5] = BadTok],
      [BaseLine EXCEPT ![6] = Tok(-1)] }

Lines == GoodLines \cup BadLines

SmallLogs == UNION {[1..n -> Lines] : n \in 0..MaxLog}

\* A log in which ExpectedArtists artists each paint one pixel of their own,
\* in a colour of their own.
FullLog == [i \in 1..ExpectedArtists |-> GoodLine(i, Point(i, 0), Color(i, 0, 0))]

Logs == SmallLogs \cup {FullLog}

HarnessPoints == {Point(0, 0), Point(0, 1), Point(1, 0), Point(1, 1)}

HarnessMaps == UNION {[D -> SUBSET HarnessPoints] : D \in SUBSET (1..MaxArtist)}

\* The checkers that take the occupancy index alone.
MapCheckers == CheckerNames \ {"colors_unique"}

\* ------------------------------------------------------------------- state
VARIABLES file_found, lines, pc, canvas, bi, posns_map, stage, results, prev,
          stderr, exit

vars == <<file_found, lines, pc, canvas, bi, posns_map, stage, results, prev,
          stderr, exit>>

EmptyMap == [a \in {} |-> {}]

Fresh ==
    /\ canvas = <<>>
    /\ bi = 1
    /\ stage = 1
    /\ results = [name \in CheckerNames |-> NotRun]
    /\ prev = NotRun
    /\ stderr = <<>>
    /\ exit = "running"

Init ==
    /\ pc = "open"
    /\ \/ file_found = FALSE /\ lines = <<>>
       \/ file_found = TRUE /\ lines \in Logs
    /\ posns_map = EmptyMap
    /\ Fresh

\* File::open (lines 77-86): a missing file makes main return Err.
OpenFile ==
    /\ pc = "open"
    /\ IF file_found
       THEN pc' = "read" /\ UNCHANGED <<stderr, exit>>
       ELSE /\ pc' = "done"
            /\ exit' = "failure"
            /\ stderr' = Append(stderr, [kind |-> "main_error", msg |-> "NotFound"])
    /\ UNCHANGED <<file_found, lines, canvas, bi, posns_map, stage, results, prev>>

\* let canvas = read_log_to_canvas(log_lines)?  (line 96)
ReadLog ==
    /\ pc = "read"
    /\ LET r == read_log_to_canvas(lines)
       IN IF r.ok
          THEN /\ canvas' = r.pixels
               /\ pc' = IF r.pixels = <<>> THEN "check" ELSE "build"
               /\ UNCHANGED <<stderr, exit>>
          ELSE /\ stderr' = stderr \o r.err
               /\ exit' = "failure"
               /\ pc' = "done"
               /\ UNCHANGED canvas
    /\ UNCHANGED <<file_found, lines, bi, posns_map, stage, results, prev>>

\* Mutant: a known artist's set is replaced by the new point, not extended.
InsertPixel_overwrite ==
    /\ pc = "build"
    /\ LET pixel == canvas[bi]
       IN /\ posns_map' = [a \in DOMAIN posns_map \cup {pixel.artist} |->
                              IF a = pixel.artist THEN {pixel.coord} ELSE posns_map[a]]
          /\ stderr' = IF /\ pixel.artist \in DOMAIN posns_map
                          /\ pixel.coord \in posns_map[pixel.artist]
                       THEN Append(stderr, [kind |-> "already_painted",
                                            artist |-> pixel.artist,
                                            coord |-> pixel.coord])
                       ELSE stderr
    /\ bi' = bi + 1
    /\ pc' = IF bi = Len(canvas) THEN "check" ELSE "build"
    /\ UNCHANGED <<file_found, lines, canvas, stage, results, prev, exit>>

\* One iteration of `for pixel in &canvas` (lines 102-119).
InsertPixel ==
    /\ pc = "build"
    /\ LET pixel == canvas[bi]
       IN IF pixel.artist \in DOMAIN posns_map
          THEN /\ posns_map' = [posns_map EXCEPT ![pixel.artist] = @ \cup {pixel.coord}]
               /\ stderr' = IF pixel.coord \in posns_map[pixel.artist]
                             THEN Append(stderr, [kind |-> "already_painted",
                                                  artist |-> pixel.artist,
                                                  coord |-> pixel.coord])
                             ELSE stderr
          ELSE /\ posns_map' = [a \in DOMAIN posns_map \cup {pixel.artist} |->
                                   IF a = pixel.artist THEN {pixel.coord} ELSE posns_map[a]]
               /\ UNCHANGED stderr
    /\ bi' = bi + 1
    /\ pc' = IF bi = Len(canvas) THEN "check" ELSE "build"
    /\ UNCHANGED <<file_found, lines, canvas, stage, results, prev, exit>>

\* The next print_err_msg(check_...(..)) statement of main (lines 123-144);
\* a panic unwinds out of main, and after the last checker main prints
\* "Finished analyzing the log." and returns Ok(()) (lines 146-148).
RunChecker ==
    /\ pc = "check"
    /\ \E out \in CheckerOutcomes(Checkers[stage], canvas, posns_map) :
          /\ results' = [results EXCEPT ![Checkers[stage]] = out]
          /\ IF out.kind = "Panic"
             THEN /\ exit' = "panic"
                  /\ pc' = "done"
                  /\ stderr' = Append(stderr, [kind |-> "panic", msg |-> out.msg])
                  /\ UNCHANGED stage
             ELSE /\ stderr' = stderr \o print_err_msg(Checkers[stage], out)
                  /\ IF stage = Len(Checkers)
                     THEN exit' = "success" /\ pc' = "done" /\ UNCHANGED stage
                     ELSE stage' = stage + 1 /\ UNCHANGED <<exit, pc>>
    /\ UNCHANGED <<file_found, lines, canvas, bi, posns_map, prev>>

Next == OpenFile \/ ReadLog \/ InsertPixel \/ RunChecker

Spec == Init /\ [][Next]_vars

\* ----------------------------------------------- the checkers as functions
InitFn ==
    /\ pc = "harness"
    /\ file_found = FALSE
    /\ lines = <<>>
    /\ posns_map \in HarnessMaps
    /\ Fresh

\* One call of a checker on posns_map; the same checker may be called once
\* more on the same map, prev keeping the first call's result.
CallChecker ==
    /\ pc = "harness"
    /\ prev.kind = "NotRun"
    /\ \E name \in MapCheckers :
          /\ \A other \in CheckerNames \ {name} : results[other].kind = "NotRun"
          /\ \E out \in CheckerOutcomes(name, canvas, posns_map) :
                /\ results' = [results EXCEPT ![name] = out]
                /\ prev' = results[name]
    /\ UNCHANGED <<file_found, lines, pc, canvas, bi, posns_map, stage, stderr, exit>>

NextFn == CallChecker

SpecFn == InitFn /\ [][NextFn]_vars

\* =================================================================== claims
\* ---- notions the claims are stated in (independent of the code above)
Malformed(line) ==
    \/ Len(line) # 6
    \/ \E k \in 1..6 : ~Parses(line[k], FieldTypes[k])

MalformedLog == \E i \in 1..Len(lines) : Malformed(lines[i])

FirstMalformed == CHOOSE i \in 1..Len(lines) :
                     Malformed(lines[i]) /\ \A j \in 1..(i - 1) : ~Malformed(lines[j])

FirstBadField(line) == CHOOSE k \in 1..6 :
                          ~Parses(line[k], FieldTypes[k])
                          /\ \A j \in 1..(k - 1) : Parses(line[j], FieldTypes[j])

ParsedRun == file_found /\ ~MalformedLog

NoChecker == \A name \in CheckerNames : results[name].kind = "NotRun"

\* The model has been folded: the checkers are running or the run is over.
Folded == pc = "check" \/ (pc = "done" /\ exit \in {"panic", "success"})

\* The rank of index i within the set I of indexes (1 for the smallest).
Rank(I, i) == Cardinality({j \in I : j <= i})

EntriesOf(kind) == SelectSeq(stderr, LAMBDA e : e.kind = kind)

\* ---- C1
\* C1: over any successfully parsed log every one of the six checkers runs
\* to completion with a result (Ok or Err) and the run reaches its final
\* step, whatever the earlier checkers returned.
C1_EveryCheckerCompletes ==
    (pc = "done" /\ ParsedRun) =>
        /\ \A name \in CheckerNames : results[name].kind \in {"Ok", "Err"}
        /\ exit = "success"

\* ---- C2
\* C2: the run ends with success status iff the log parsed and no checker
\* reported a violation; a checker returning Err makes the run end in failure.
C2_ExitStatus ==
    pc = "done" =>
        /\ (exit = "success") <=>
              (ParsedRun /\ \A name \in CheckerNames : results[name].kind # "Err")
        /\ (\E name \in CheckerNames : results[name].kind = "Err") => exit # "success"

RepeatEvents == {i \in 1..Len(canvas) :
                   \E j \in 1..(i - 1) : /\ canvas[j].artist = canvas[i].artist
                                         /\ canvas[j].coord = canvas[i].coord}

CrossArtistRepeat == \E i, j \in 1..Len(canvas) :
                        /\ canvas[i].coord = canvas[j].coord
                        /\ canvas[i].artist # canvas[j].artist

C10_OccupancyIndex ==
    Folded =>
        /\ DOMAIN posns_map = {canvas[i].artist : i \in 1..Len(canvas)}
        /\ \A a \in DOMAIN posns_map :
              /\ posns_map[a] = {canvas[i].coord : i \in {j \in 1..Len(canvas) : canvas[j].artist = a}}
              /\ posns_map[a] # {}
        /\ LET dups == EntriesOf("already_painted")
           IN /\ Len(dups) = Cardinality(RepeatEvents)
              /\ \A i \in RepeatEvents :
                    /\ dups[Rank(RepeatEvents, i)].artist = canvas[i].artist
                    /\ dups[Rank(RepeatEvents, i)].coord = canvas[i].coord
        /\ (results["no_overlapping"].kind # "NotRun" /\ ~CrossArtistRepeat) =>
              results["no_overlapping"].kind = "Ok"

C10_Witness ==
    /\ Folded
    /\ Cardinality(DOMAIN posns_map) = 2
    /\ Len(EntriesOf("already_painted")) = 1
    /\ results["no_overlapping"].kind = "Ok"

\* ---- C6
\* C6: check_colors_unique reports, in log order, exactly the events whose
\* colour was first used by a different artist, each naming the first user
\* of the colour as claimant; it returns Err iff some colour is used by two
\* different artists; every violation is collected.
FirstUse(c) == CHOOSE i \in 1..Len(canvas) :
                  canvas[i].color = c /\ \A j \in 1..(i - 1) : canvas[j].color # c

Offending == {i \in 1..Len(canvas) :
                canvas[FirstUse(canvas[i].color)].artist # canvas[i].artist}

C6_ColorClaims ==
    LET r == results["colors_unique"]
    IN r.kind # "NotRun" =>
          /\ Len(r.diags) = Cardinality(Offending)
          /\ \A i \in Offending :
                r.diags[Rank(Offending, i)] =
                    [offender |-> canvas[i].artist, color |-> canvas[i].color,
                     claimant |-> canvas[FirstUse(canvas[i].color)].artist]
          /\ (r.kind = "Err") <=>
                (\E i, j \in 1..Len(canvas) : /\ canvas[i].color = canvas[j].color
                                              /\ canvas[i].artist # canvas[j].artist)
          /\ r.kind \in {"Ok", "Err"}

\* Two violations in one run, the second after the first.
C6_Witness ==
    /\ results["colors_unique"].kind = "Err"
    /\ Len(results["colors_unique"].diags) = 2

\* ---- C5
Shared(a, b) == {p \in posns_map[a] : p \in posns_map[b]}

ArtistPairs == {pr \in (DOMAIN posns_map) \X (DOMAIN posns_map) : pr[1] < pr[2]}

ReportsOn(r, a, b) == {d \in r.diags : {d.artist, d.other_artist} = {a, b}}

\* C5 (as claimed): check_no_overlapping reports exactly one violation per
\* unordered pair of distinct artists whose sets intersect, listing the
\* shared coordinates, nothing for disjoint pairs, and Err iff a pair exists.
C5_OneReportPerUnorderedPair ==
    LET r == results["no_overlapping"]
    IN r.kind # "NotRun" =>
          /\ \A pr \in ArtistPairs :
                Cardinality(ReportsOn(r, pr[1], pr[2])) =
                    IF Shared(pr[1], pr[2]) # {} THEN 1 ELSE 0
          /\ (r.kind = "Err") <=> (\E pr \in ArtistPairs : Shared(pr[1], pr[2]) # {})

\* C5 (amended): check_no_overlapping reports one violation per ordered pair
\* (artist, other artist) of distinct artists whose sets intersect, that is
\* two per unordered pair, one from each side, each listing exactly the
\* shared coordinates; it reports nothing for disjoint pairs and nothing
\* else, and returns Err iff at least one such pair exists.
C5_OneReportPerOrderedPair ==
    LET r == results["no_overlapping"]
    IN r.kind # "NotRun" =>
          /\ \A pr \in ArtistPairs :
                IF Shared(pr[1], pr[2]) # {}
                THEN /\ Cardinality(ReportsOn(r, pr[1], pr[2])) = 2
                     /\ \E d \in r.diags : d.artist = pr[1] /\ d.other_artist = pr[2]
                     /\ \E d \in r.diags : d.artist = pr[2] /\ d.other_artist = pr[1]
                ELSE ReportsOn(r, pr[1], pr[2]) = {}
          /\ \A d \in r.diags :
                /\ d.artist # d.other_artist
                /\ d.points = Shared(d.artist, d.other_artist)
          /\ (r.kind = "Err") <=> (\E pr \in ArtistPairs : Shared(pr[1], pr[2]) # {})
          /\ r.kind \in {"Ok", "Err"}

\* Two artists share (0,0), and only that point.
C5_Witness ==
    /\ results["no_overlapping"].kind = "Err"
    /\ \E d \in results["no_overlapping"].diags : d.points = {Point(0, 0)}

\* ---- C3
Offsets == {p.x - q.x : p, q \in HarnessPoints} \cup {p.y - q.y : p, q \in HarnessPoints}

IsTranslation(A, B) ==
    \E dx, dy \in Offsets : {Point(p.x + dx, p.y + dy) : p \in A} = B

TranslationPairs(pm) ==
    {{pr[1], pr[2]} : pr \in {q \in (DOMAIN pm) \X (DOMAIN pm) :
                               q[1] < q[2] /\ IsTranslation(pm[q[1]], pm[q[2]])}}

\* C3: on non-empty sets the duplicate pairs recorded by
\* check_no_repeating_patterns are exactly the unordered pairs of distinct
\* artists whose sets are translations of one another, each counted once,
\* and it returns Ok iff there is none.
C3_DuplicatesAreTranslations ==
    LET r == results["no_repeating_patterns"]
    IN (r.kind # "NotRun" /\ \A a \in DOMAIN posns_map : posns_map[a] # {}) =>
          /\ r.kind \in {"Ok", "Err"}
          /\ r.pairs = TranslationPairs(posns_map)
          /\ r.count = Cardinality(TranslationPairs(posns_map))
          /\ (r.kind = "Ok") <=> (TranslationPairs(posns_map) = {})

\* ---- C4
Adjacent(p, q) ==
    \/ p.x = q.x /\ (p.y = q.y + 1 \/ q.y = p.y + 1)
    \/ p.y = q.y /\ (p.x = q.x + 1 \/ q.x = p.x + 1)

RECURSIVE Component(_, _)
Component(S, seen) ==
    LET more == {q \in S \ seen : \E p \in seen : Adjacent(p, q)}
    IN IF more = {} THEN seen ELSE Component(S, seen \cup more)

Connected(S) == S = {} \/ Component(S, {CHOOSE p \in S : TRUE}) = S

\* C4: on non-empty sets check_no_islands returns a result, and passes iff
\* every artist's set is one connected component under 4-connectivity.
C4_IslandsVerdict ==
    LET r == results["no_islands"]
    IN (/\ r.kind # "NotRun"
        /\ DOMAIN posns_map # {}
        /\ \A a \in DOMAIN posns_map : posns_map[a] # {}) =>
          /\ r.kind \in {"Ok", "Err"}
          /\ (r.kind = "Ok") <=> (\A a \in DOMAIN posns_map : Connected(posns_map[a]))

\* ---- C7
\* C7: a checker run twice on the same occupancy index reports the same
\* thing both times (for the pattern checker: the same verdict and the same
\* number of duplicate patterns).
C7_SameReportTwice ==
    prev.kind # "NotRun" =>
        \A name \in MapCheckers :
            results[name].kind # "NotRun" =>
                IF name = "no_repeating_patterns"
                THEN /\ prev.kind = results[name].kind
                     /\ prev.kind = "Err" => prev.count = results[name].count
                ELSE prev = results[name]

====
